---- MODULE Spec2Model ----
(***************************************************************************)
(* Model of source/grid_tools.py: generate_xdmf_mesh (locate-or-generate   *)
(* the msh file, read it, infer the dimension, extract and write the facet *)
(* and the body sub-mesh), _locate_file and _create_meshio_mesh.           *)
(*                                                                         *)
(* A mesh is the meshio.Mesh the code handles: points, a list of cell      *)
(* blocks (type, cells) and cell_data, a mapping from field name to a list *)
(* of tag arrays parallel to the cell blocks.  A path is a sequence of     *)
(* tokens ("/" separates components, an extension such as ".msh" is one    *)
(* token), so that replace, splitext, basename, the substring test and the *)
(* glob patterns are computed on it.                                       *)
(***************************************************************************)
EXTENDS Integers, Sequences, FiniteSets, TLC

VARIABLES pc, geo_file, disk, msh_file, gmsh_runs, mesh, dim, facet_type,
          cell_type, prune_z, facet_mesh, cell_mesh, writes, err, call, parsed_file

vars == <<pc, geo_file, disk, msh_file, gmsh_runs, mesh, dim, facet_type,
          cell_type, prune_z, facet_mesh, cell_mesh, writes, err, call,
          parsed_file>>

(***************************************************************************)
(* Bounds and input sets                                                   *)
(***************************************************************************)
MaxBlocks == 3

CellTypes == {"vertex", "line", "triangle", "tetra"}

\* tag arrays a cell block may carry (one tag per cell of the block)
TagSeqs == {<<>>, <<1>>, <<2, 1>>}

\* point arrays: empty, planar (z = 0 everywhere), not planar
PointSeqs == {<<>>, <<<<0, 0, 0>>, <<1, 0, 0>>>>, <<<<0, 0, 0>>, <<1, 1, 1>>>>}

\* the smaller menus used for the meshes read from a file
FileTagSeqs == {<<>>, <<2, 1>>}

FilePointSeqs == {<<<<0, 0, 0>>, <<1, 0, 0>>>>, <<<<0, 0, 0>>, <<1, 1, 1>>>>}

(***************************************************************************)
(* meshio.Mesh                                                             *)
(***************************************************************************)
PHYSICAL == "gmsh:physical"

\* number of nodes of a cell of the given type
Arity(t) == CASE t = "vertex" -> 1 [] t = "line" -> 2 [] t = "triangle" -> 3
              [] OTHER -> 4

\* connectivity of the j-th cell of a block (0-based point indices)
Cell(t, j) == [i \in 1..Arity(t) |-> j + i - 2]

Block(t, n) == [type |-> t, data |-> [j \in 1..n |-> Cell(t, j)]]

\* meshes of at most MaxBlocks cell blocks, with points from pointMenu. A mesh
\* has no cell_data, or the field gmsh:physical with one tag array from tagMenu
\* per block and one tag per cell of the block (meshio.Mesh checks both lengths)
MeshSet(tagMenu, pointMenu) ==
    {[points |-> p,
      cells |-> [b \in 1..Len(sh) |-> Block(sh[b][1], Len(sh[b][2]))],
      cell_data |-> IF tagged THEN (PHYSICAL :> [b \in 1..Len(sh) |-> sh[b][2]])
                    ELSE <<>>] :
        p \in pointMenu, tagged \in BOOLEAN,
        sh \in UNION {[1..k -> CellTypes \X tagMenu] : k \in 0..MaxBlocks}}

Meshes == MeshSet(TagSeqs, PointSeqs)

FileMeshes == MeshSet(FileTagSeqs, FilePointSeqs)

NoMesh == [points |-> <<>>, cells |-> <<>>, cell_data |-> <<>>]

\* mesh.cells_dict: its keys are the types of the cell blocks
cells_dict(m) == {m.cells[b].type : b \in 1..Len(m.cells)}

\* mesh.cell_data_dict[name]: its keys are the types of the blocks zipped with
\* the field's arrays
cell_data_dict(m, name) ==
    {m.cells[b].type : b \in 1..(IF Len(m.cells) < Len(m.cell_data[name])
                                 THEN Len(m.cells) ELSE Len(m.cell_data[name]))}

RECURSIVE ConcatBlocks(_, _, _)
\* concatenation of arrays[b] over the blocks b of type t, in block order
ConcatBlocks(blocks, arrays, t) ==
    IF blocks = <<>> \/ arrays = <<>> THEN <<>>
    ELSE (IF Head(blocks).type = t THEN Head(arrays) ELSE <<>>)
         \o ConcatBlocks(Tail(blocks), Tail(arrays), t)

\* mesh.get_cells_type(cell_type): empty when no block has the type
get_cells_type(m, t) ==
    ConcatBlocks(m.cells, [b \in 1..Len(m.cells) |-> m.cells[b].data], t)

\* mesh.get_cell_data(name, cell_type): numpy cannot concatenate zero arrays
get_cell_data_ok(m, name, t) ==
    \E b \in 1..Len(m.cells) : b <= Len(m.cell_data[name]) /\ m.cells[b].type = t

\* get_cell_data without the concatenation: the array of the first block only
get_cell_data_first_block(m, name, t) ==
    LET b == CHOOSE k \in 1..Len(m.cells) :
                 /\ m.cells[k].type = t
                 /\ \A l \in 1..(k - 1) : m.cells[l].type # t
    IN  m.cell_data[name][b]

get_cell_data(m, name, t) == ConcatBlocks(m.cells, m.cell_data[name], t)

\* prune_z_0 without its test: the third component is dropped from any points
prune_z_always(points) ==
    [i \in 1..Len(points) |-> <<points[i][1], points[i][2]>>]

\* Mesh.prune_z_0: drops the third component only if it is 0 at every point
prune_z_0(points) ==
    IF Len(points) > 0 /\ (\A i \in 1..Len(points) : Len(points[i]) = 3)
       /\ (\A i \in 1..Len(points) : points[i][3] = 0)
    THEN [i \in 1..Len(points) |-> <<points[i][1], points[i][2]>>]
    ELSE points

(***************************************************************************)
(* _create_meshio_mesh                                                     *)
(***************************************************************************)
Raise(e) == [ok |-> FALSE, err |-> e, mesh |-> NoMesh]

Return(m) == [ok |-> TRUE, err |-> "", mesh |-> m]

NotCalled == [ok |-> FALSE, err |-> "not called", mesh |-> NoMesh]

\* a data name fixed by the cell type alone
data_name_by_type(m, t) ==
    IF "triangle" \notin cells_dict(m) THEN ""
    ELSE IF t = "line" THEN "facet_markers"
    ELSE IF t = "triangle" THEN "cell_markers"
    ELSE IF t = "tetra" /\ "tetra" \in cells_dict(m) THEN "cell_markers"
    ELSE ""

\* the second branch taken for any mesh with tetra cells
data_name_tetra_only(m, t) ==
    IF "triangle" \in cells_dict(m) /\ "tetra" \notin cells_dict(m)
    THEN (IF t = "triangle" THEN "cell_markers"
          ELSE IF t = "line" THEN "facet_markers" ELSE "")
    ELSE IF "tetra" \in cells_dict(m)
    THEN (IF t = "tetra" THEN "cell_markers"
          ELSE IF t = "triangle" THEN "facet_markers" ELSE "")
    ELSE ""

\* the data name chosen for cell_type, "" where the code raises RuntimeError
data_name(m, t) ==
    IF "triangle" \in cells_dict(m) /\ "tetra" \notin cells_dict(m)
    THEN (IF t = "triangle" THEN "cell_markers"
          ELSE IF t = "line" THEN "facet_markers" ELSE "")
    ELSE IF "triangle" \in cells_dict(m) /\ "tetra" \in cells_dict(m)
    THEN (IF t = "tetra" THEN "cell_markers"
          ELSE IF t = "triangle" THEN "facet_markers" ELSE "")
    ELSE ""

_create_meshio_mesh(m, t, prune) ==
    IF t \notin {"line", "triangle", "tetra"} THEN Raise("AssertionError")
    ELSE IF PHYSICAL \notin DOMAIN m.cell_data THEN Raise("AssertionError")
    ELSE IF ~get_cell_data_ok(m, PHYSICAL, t) THEN Raise("ValueError")
    ELSE IF data_name(m, t) = "" THEN Raise("RuntimeError")
    ELSE LET cells == get_cells_type(m, t)
             cd == get_cell_data(m, PHYSICAL, t)
             out == [points |-> m.points,
                     cells |-> <<[type |-> t, data |-> cells]>>,
                     cell_data |-> (data_name(m, t) :> <<cd>>)]
         IN  Return(IF prune THEN [out EXCEPT !.points = prune_z_0(out.points)]
                    ELSE out)

(***************************************************************************)
(* Paths                                                                   *)
(***************************************************************************)
None == <<>>

SEP == "/"

\* tokens that start with a dot
DotTokens == {".", "..", ".geo", ".msh", ".xdmf"}

RECURSIVE LastSep(_, _)
\* index of the last separator among the first n tokens, 0 if there is none
LastSep(p, n) == IF n = 0 THEN 0 ELSE IF p[n] = SEP THEN n ELSE LastSep(p, n - 1)

\* os.path.basename
basename(p) == SubSeq(p, LastSep(p, Len(p)) + 1, Len(p))

\* os.path.splitext(p)[1]: the extension, "" if there is none (a leading dot of
\* the last component starts no extension)
splitext_ext(p) ==
    LET b == basename(p)
    IN  IF Len(b) >= 2 /\ b[Len(b)] \in {".geo", ".msh", ".xdmf"} THEN b[Len(b)] ELSE ""

RECURSIVE replace(_, _, _)
\* str.replace(old, new): every occurrence of the token old becomes the tokens new
replace(p, old, new) ==
    IF p = <<>> THEN <<>>
    ELSE (IF Head(p) = old THEN new ELSE <<Head(p)>>) \o replace(Tail(p), old, new)

\* b in f
contains(f, b) ==
    \E i \in 0..(Len(f) - Len(b)) : SubSeq(f, i + 1, i + Len(b)) = b

RECURSIVE components(_)
\* the components of a path
components(p) ==
    IF LastSep(p, Len(p)) = 0 THEN <<p>>
    ELSE Append(components(SubSeq(p, 1, LastSep(p, Len(p)) - 1)), basename(p))

\* one component against one pattern component: "*" (any name that is not
\* hidden), "*ext" (such a name ending in ext) or a literal
match_component(c, pat, ext) ==
    IF pat = "*" THEN Len(c) >= 1 /\ c[1] \notin DotTokens
    ELSE IF pat = "*ext"
    THEN Len(c) >= 1 /\ c[1] \notin DotTokens /\ (ext = "" \/ c[Len(c)] = ext)
    ELSE c = <<pat>>

\* glob.glob(pattern): the files on disk the pattern matches
glob(files, pat, ext) ==
    {f \in files : LET c == components(f)
                   IN  /\ Len(c) = Len(pat)
                       /\ \A i \in 1..Len(c) : match_component(c[i], pat[i], ext)}

\* _locate_file: the values it may return. The three lists are searched in this
\* order; the order inside one list is the file system's, so any hit of the
\* first list that has one may be the first
_locate_file(files, name) ==
    LET ext == splitext_ext(name)
        hits(pat) == {f \in glob(files, pat, ext) : contains(f, name)}
        h1 == hits(<<"..", "*", "*", "*ext">>)
        h2 == hits(<<".", "*", "*ext">>)
        h3 == hits(<<".", "*", "*", "*ext">>)
    IN  IF h1 # {} THEN h1 ELSE IF h2 # {} THEN h2 ELSE IF h3 # {} THEN h3 ELSE {None}

GEO_D == <<".", SEP, "d", SEP, "a", ".geo">>

GEO_TOP == <<".", SEP, "a", ".geo">>

MSH_D == <<".", SEP, "d", SEP, "a", ".msh">>

MSH_E == <<".", SEP, "e", SEP, "a", ".msh">>

MSH_UP == <<"..", SEP, "p", SEP, "q", SEP, "a", ".msh">>

MSH_DEEP == <<".", SEP, "d", SEP, "e", SEP, "b", "a", ".msh">>

\* the arguments of generate_xdmf_mesh
GeoInputs == {GEO_D, GEO_TOP, MSH_D}

\* the msh files lying on disk before the run
MshOnDisk == {{}, {MSH_D}, {MSH_D, MSH_E}, {MSH_UP, MSH_D}, {MSH_DEEP}}

File(kind, data) == [kind |-> kind, data |-> data]

(***************************************************************************)
(* generate_xdmf_mesh                                                      *)
(***************************************************************************)
NoErr == [type |-> "", line |-> 0]

Fail(type, line) ==
    /\ pc' = "failed"
    /\ err' = [type |-> type, line |-> line]

\* lines 78-80
input_ok(files, geo) == geo \in files /\ splitext_ext(geo) = ".geo"

\* gmsh is run whether or not the msh file was found
needs_gmsh_always(file) == TRUE

\* line 84
needs_gmsh(file) == file = None

\* lines 77-83: the input check and the search for the msh file
Start ==
    /\ pc = "start"
    /\ IF ~input_ok(DOMAIN disk, geo_file)
       THEN Fail("AssertionError", 79) /\ UNCHANGED msh_file
       ELSE /\ msh_file' \in _locate_file(DOMAIN disk,
                                          replace(basename(geo_file), ".geo", <<".msh">>))
            /\ pc' = IF needs_gmsh(msh_file') THEN "gmsh" ELSE "exists"
            /\ UNCHANGED err
    /\ UNCHANGED <<geo_file, disk, gmsh_runs, mesh, dim, facet_type, cell_type,
                   prune_z, facet_mesh, cell_mesh, writes, call, parsed_file>>

\* lines 85-89: gmsh runs to its end and writes the msh file next to the geo
\* file, or exits with success having written nothing, or exits with an error,
\* or cannot be started
Gmsh ==
    /\ pc = "gmsh"
    /\ gmsh_runs' = gmsh_runs + 1
    /\ \/ /\ disk' = (replace(geo_file, ".geo", <<".msh">>) :> File("msh", NoMesh)) @@ disk
          /\ pc' = "exists"
          /\ UNCHANGED err
       \/ /\ pc' = "exists"
          /\ UNCHANGED <<disk, err>>
       \/ /\ Fail("RuntimeError", 88)
          /\ UNCHANGED disk
       \/ /\ Fail("FileNotFoundError", 86)
          /\ UNCHANGED disk
    /\ UNCHANGED <<geo_file, msh_file, mesh, dim, facet_type, cell_type, prune_z,
                   facet_mesh, cell_mesh, writes, call, parsed_file>>

\* line 91: os.path.exists(None) raises TypeError
Exists ==
    /\ pc = "exists"
    /\ IF msh_file = None THEN Fail("TypeError", 91)
       ELSE IF msh_file \notin DOMAIN disk THEN Fail("AssertionError", 91)
       ELSE pc' = "read" /\ UNCHANGED err
    /\ UNCHANGED <<geo_file, disk, msh_file, gmsh_runs, mesh, dim, facet_type,
                   cell_type, prune_z, facet_mesh, cell_mesh, writes, call, parsed_file>>

\* line 92: meshio.read returns the mesh the file holds, or raises on a file it
\* cannot parse
Read ==
    /\ pc = "read"
    /\ parsed_file' = msh_file
    /\ \/ /\ mesh' \in FileMeshes
          /\ pc' = "infer"
          /\ UNCHANGED err
       \/ /\ Fail("ReadError", 92)
          /\ UNCHANGED mesh
    /\ UNCHANGED <<geo_file, disk, msh_file, gmsh_runs, dim, facet_type, cell_type,
                   prune_z, facet_mesh, cell_mesh, writes, call>>

\* the inference without the checks of the tag entries
dimension_unchecked(m) ==
    IF "triangle" \in cells_dict(m) /\ "tetra" \notin cells_dict(m)
    THEN [dim |-> 2, err |-> [type |-> "", line |-> 0]]
    ELSE IF "triangle" \in cells_dict(m) /\ "tetra" \in cells_dict(m)
    THEN [dim |-> 3, err |-> [type |-> "", line |-> 0]]
    ELSE [dim |-> 0, err |-> [type |-> "RuntimeError", line |-> 101]]

\* lines 94-101: the dimension and the exception the inference raises, if any
dimension(m) ==
    IF "triangle" \in cells_dict(m) /\ "tetra" \notin cells_dict(m)
    THEN (IF PHYSICAL \notin DOMAIN m.cell_data THEN [dim |-> 0, err |-> [type |-> "KeyError", line |-> 95]]
          ELSE IF "line" \notin cell_data_dict(m, PHYSICAL)
          THEN [dim |-> 0, err |-> [type |-> "AssertionError", line |-> 95]]
          ELSE [dim |-> 2, err |-> NoErr])
    ELSE IF "triangle" \in cells_dict(m) /\ "tetra" \in cells_dict(m)
    THEN (IF PHYSICAL \notin DOMAIN m.cell_data THEN [dim |-> 0, err |-> [type |-> "KeyError", line |-> 98]]
          ELSE IF "triangle" \notin cell_data_dict(m, PHYSICAL)
          THEN [dim |-> 0, err |-> [type |-> "AssertionError", line |-> 98]]
          ELSE [dim |-> 3, err |-> NoErr])
    ELSE [dim |-> 0, err |-> [type |-> "RuntimeError", line |-> 101]]

\* the cell types with the facet and the body type of the plane case exchanged
cell_types_swapped(d) ==
    IF d = 2 THEN [facet_type |-> "triangle", cell_type |-> "line", prune_z |-> TRUE]
    ELSE [facet_type |-> "triangle", cell_type |-> "tetra", prune_z |-> FALSE]

\* lines 103-110
cell_types(d) ==
    IF d = 2 THEN [facet_type |-> "line", cell_type |-> "triangle", prune_z |-> TRUE]
    ELSE [facet_type |-> "triangle", cell_type |-> "tetra", prune_z |-> FALSE]

\* lines 93-110, continuing at the given position
InferTo(next) ==
    /\ pc = "infer"
    /\ LET d == dimension(mesh)
       IN  IF d.dim = 0
           THEN /\ pc' = "failed"
                /\ err' = d.err
                /\ UNCHANGED <<dim, facet_type, cell_type, prune_z>>
           ELSE /\ dim' = d.dim
                /\ facet_type' = cell_types(d.dim).facet_type
                /\ cell_type' = cell_types(d.dim).cell_type
                /\ prune_z' = cell_types(d.dim).prune_z
                /\ pc' = next
                /\ UNCHANGED err
    /\ UNCHANGED <<geo_file, disk, msh_file, gmsh_runs, mesh, facet_mesh,
                   cell_mesh, writes, call, parsed_file>>

\* the inference continuing at the first write, the facet mesh not yet extracted
Infer_then_write == InferTo("write_facet")

Infer == InferTo("extract_facet")

\* line 112
ExtractFacet ==
    /\ pc = "extract_facet"
    /\ facet_mesh' = _create_meshio_mesh(mesh, facet_type, prune_z)
    /\ IF facet_mesh'.ok THEN pc' = "write_facet" /\ UNCHANGED err
       ELSE Fail(facet_mesh'.err, 112)
    /\ UNCHANGED <<geo_file, disk, msh_file, gmsh_runs, mesh, dim, facet_type,
                   cell_type, prune_z, cell_mesh, writes, call, parsed_file>>

\* line 113
xdmf_facet_marker_file(msh) == replace(msh, ".msh", <<"_facet_markers", ".xdmf">>)

\* line 117
xdmf_file(msh) == replace(msh, ".msh", <<".xdmf">>)

\* meshio.write(file, m): the file is written, or the write raises and leaves
\* nothing or a partial file
Write(file, m, next, line) ==
    \/ /\ disk' = (file :> File("xdmf", m)) @@ disk
       /\ writes' = Append(writes, file)
       /\ pc' = next
       /\ UNCHANGED err
    \/ /\ disk' \in {disk, (file :> File("partial", NoMesh)) @@ disk}
       /\ Fail("OSError", line)
       /\ UNCHANGED writes

\* the facet file is not written
WriteFacet_skipped ==
    /\ pc = "write_facet"
    /\ pc' = "extract_body"
    /\ UNCHANGED <<geo_file, disk, msh_file, gmsh_runs, mesh, dim, facet_type,
                   cell_type, prune_z, facet_mesh, cell_mesh, writes, err, call,
                   parsed_file>>

\* lines 113-114
WriteFacet ==
    /\ pc = "write_facet"
    /\ Write(xdmf_facet_marker_file(msh_file), facet_mesh.mesh, "extract_body", 114)
    /\ UNCHANGED <<geo_file, msh_file, gmsh_runs, mesh, dim, facet_type,
                   cell_type, prune_z, facet_mesh, cell_mesh, call, parsed_file>>

\* line 116
ExtractBody ==
    /\ pc = "extract_body"
    /\ cell_mesh' = _create_meshio_mesh(mesh, cell_type, prune_z)
    /\ IF cell_mesh'.ok THEN pc' = "write_body" /\ UNCHANGED err
       ELSE Fail(cell_mesh'.err, 116)
    /\ UNCHANGED <<geo_file, disk, msh_file, gmsh_runs, mesh, dim, facet_type,
                   cell_type, prune_z, facet_mesh, writes, call, parsed_file>>

\* lines 117-119
WriteBody ==
    /\ pc = "write_body"
    /\ Write(xdmf_file(msh_file), cell_mesh.mesh, "done", 118)
    /\ UNCHANGED <<geo_file, msh_file, gmsh_runs, mesh, dim, facet_type,
                   cell_type, prune_z, facet_mesh, cell_mesh, call, parsed_file>>

NoCall == [mesh |-> NoMesh, cell_type |-> "", prune_z |-> FALSE, ret |-> NotCalled]

\* a direct call of _create_meshio_mesh
CreateMeshioMeshCall ==
    /\ pc = "lib"
    /\ \E m \in Meshes, t \in CellTypes, p \in BOOLEAN :
          call' = [mesh |-> m, cell_type |-> t, prune_z |-> p,
                   ret |-> _create_meshio_mesh(m, t, p)]
    /\ pc' = "lib_returned"
    /\ UNCHANGED <<geo_file, disk, msh_file, gmsh_runs, mesh, dim, facet_type,
                   cell_type, prune_z, facet_mesh, cell_mesh, writes, err,
                   parsed_file>>

InitCall ==
    /\ pc = "lib"
    /\ geo_file = <<>>
    /\ disk = <<>>
    /\ msh_file = <<>>
    /\ gmsh_runs = 0
    /\ mesh = NoMesh
    /\ dim = 0
    /\ facet_type = ""
    /\ cell_type = ""
    /\ prune_z = FALSE
    /\ facet_mesh = NotCalled
    /\ cell_mesh = NotCalled
    /\ writes = <<>>
    /\ err = NoErr
    /\ call = NoCall
    /\ parsed_file = None

NextCall == CreateMeshioMeshCall

SpecCall == InitCall /\ [][NextCall]_vars

\* the state before generate_xdmf_mesh(geo_file) is called
Init ==
    /\ pc = "start"
    /\ geo_file \in GeoInputs
    /\ \E geo \in SUBSET {GEO_D, GEO_TOP}, msh \in MshOnDisk :
          disk = [f \in geo \cup msh |->
                    IF f \in geo THEN File("geo", NoMesh) ELSE File("msh", NoMesh)]
    /\ msh_file = None
    /\ gmsh_runs = 0
    /\ mesh = NoMesh
    /\ dim = 0
    /\ facet_type = ""
    /\ cell_type = ""
    /\ prune_z = FALSE
    /\ facet_mesh = NotCalled
    /\ cell_mesh = NotCalled
    /\ writes = <<>>
    /\ err = NoErr
    /\ call = NoCall
    /\ parsed_file = None

Next ==
    \/ Start
    \/ Gmsh
    \/ Exists
    \/ Read
    \/ Infer
    \/ ExtractFacet
    \/ WriteFacet
    \/ ExtractBody
    \/ WriteBody

Spec == Init /\ [][Next]_vars

(***************************************************************************)
(* Properties                                                              *)
(***************************************************************************)
\* the mesh has a cell block of type t
HasCells(m, t) == \E b \in 1..Len(m.cells) : m.cells[b].type = t

\* the field gmsh:physical of the mesh has an entry for type t
HasTag(m, t) == PHYSICAL \in DOMAIN m.cell_data /\ HasCells(m, t)

\* the files of the run's output on disk, whole or partial
OutputFiles == {f \in DOMAIN disk : disk[f].kind \in {"xdmf", "partial"}}

\* the dimension inference (lines 93-110) has been executed
Inferred ==
    \/ pc \in {"extract_facet", "write_facet", "extract_body", "write_body", "done"}
    \/ pc = "failed" /\ err.line >= 95

\* the search for the msh file (line 83) has been executed
Located == pc # "start" /\ ~(pc = "failed" /\ err.line = 79)

\* C1 as stated: whenever an output file is on disk, both sub-meshes have been
\* constructed
C1_NoWriteBeforeBothBuilt ==
    OutputFiles # {} => facet_mesh.ok /\ cell_mesh.ok

\* C1 (amended): an output file is on disk only after the facet sub-mesh has
\* been constructed and the body file only after both have been; a run that
\* failed before the facet sub-mesh was constructed has left no output file
C1_WriteOrder ==
    /\ OutputFiles # {} => facet_mesh.ok
    /\ xdmf_file(msh_file) \in OutputFiles => facet_mesh.ok /\ cell_mesh.ok
    /\ pc = "failed" /\ ~facet_mesh.ok => OutputFiles = {}

C1_Witness ==
    /\ pc = "extract_body"
    /\ xdmf_facet_marker_file(msh_file) \in OutputFiles
    /\ facet_mesh.ok
    /\ ~cell_mesh.ok

\* the msh file gmsh writes for geo_file is on disk after gmsh ran
Generated ==
    /\ gmsh_runs = 1
    /\ pc \notin {"start", "gmsh"}
    /\ replace(geo_file, ".geo", <<".msh">>) \in DOMAIN disk

\* C2: when no msh file was found and gmsh has written one, the run does not
\* fail at the existence check of the msh file (it goes on to parse the file)
C2_GeneratedFileIsUsed ==
    Generated => ~(pc = "failed" /\ err.line = 91)

\* C3: gmsh is run at most once, and it has been run if and only if the search
\* returned no file; a file that was found is the file parsed, is still on
\* disk as it was, and gmsh is not run
C3_GeneratorIffNotFound ==
    /\ gmsh_runs <= 1
    /\ Located /\ pc # "gmsh" => (gmsh_runs = 1 <=> msh_file = None)
    /\ Located /\ msh_file # None =>
          /\ gmsh_runs = 0
          /\ msh_file \in DOMAIN disk
          /\ disk[msh_file] = File("msh", NoMesh)
          /\ parsed_file \in {None, msh_file}
          /\ mesh # NoMesh => parsed_file = msh_file

C3_Witness ==
    /\ pc = "done"
    /\ msh_file # None
    /\ gmsh_runs = 0
    /\ parsed_file = msh_file

\* C4: once the inference has run, a mesh with triangle cells, no tetra cells
\* and a line tag entry has dimension 2, body type triangle, facet type line and
\* prune_z true; a mesh with triangle and tetra cells and a triangle tag entry
\* has dimension 3, body type tetra, facet type triangle and prune_z false
C4_DecisionTable ==
    Inferred =>
      /\ HasCells(mesh, "triangle") /\ ~HasCells(mesh, "tetra") /\ HasTag(mesh, "line")
           => /\ dim = 2
              /\ cell_type = "triangle"
              /\ facet_type = "line"
              /\ prune_z = TRUE
      /\ HasCells(mesh, "triangle") /\ HasCells(mesh, "tetra") /\ HasTag(mesh, "triangle")
           => /\ dim = 3
              /\ cell_type = "tetra"
              /\ facet_type = "triangle"
              /\ prune_z = FALSE

C4_Witness ==
    /\ pc = "extract_facet"
    /\ HasCells(mesh, "triangle")
    /\ ~HasCells(mesh, "tetra")
    /\ HasTag(mesh, "line")
    /\ dim = 2

\* the mesh fits neither row of the decision table
Unsupported(m) ==
    \/ ~HasCells(m, "triangle")
    \/ ~HasCells(m, "tetra") /\ ~HasTag(m, "line")
    \/ HasCells(m, "tetra") /\ ~HasTag(m, "triangle")

\* C5: once the inference has run on a mesh without triangle cells or without
\* the facet tag entry of its dimension, the run has failed in the inference
\* (lines 95, 98, 101) and no output file is on disk
C5_InferenceFailure ==
    Inferred /\ Unsupported(mesh) =>
      /\ pc = "failed"
      /\ err.line \in {95, 98, 101}
      /\ OutputFiles = {}

C5_Witness ==
    /\ pc = "failed"
    /\ err = [type |-> "RuntimeError", line |-> 101]
    /\ HasCells(mesh, "tetra")
    /\ ~HasCells(mesh, "triangle")

\* the names of the cell-data fields of a sub-mesh
Fields(r) == DOMAIN r.mesh.cell_data

\* C6: the body sub-mesh has the single field cell_markers and holds the cells
\* of the body type, the facet sub-mesh has the single field facet_markers and
\* holds the cells of the facet type, in the plane and in the space case; a
\* finished run has produced both
C6_FieldNames ==
    /\ pc \in {"write_facet", "extract_body", "write_body", "done"} => facet_mesh.ok
    /\ pc \in {"write_body", "done"} => cell_mesh.ok
    /\ facet_mesh.ok =>
          /\ Fields(facet_mesh) = {"facet_markers"}
          /\ facet_mesh.mesh.cells[1].type = facet_type
          /\ facet_type = IF dim = 2 THEN "line" ELSE "triangle"
    /\ cell_mesh.ok =>
          /\ Fields(cell_mesh) = {"cell_markers"}
          /\ cell_mesh.mesh.cells[1].type = cell_type
          /\ cell_type = IF dim = 2 THEN "triangle" ELSE "tetra"

C6_Witness ==
    /\ pc = "done"
    /\ dim = 3
    /\ Fields(facet_mesh) = {"facet_markers"}
    /\ facet_mesh.mesh.cells[1].type = "triangle"

\* the call of _create_meshio_mesh has returned or raised
Called == pc = "lib_returned"

RECURSIVE CellsBefore(_, _, _)
\* the number of cells of type t in the first b blocks of the mesh
CellsBefore(m, t, b) ==
    IF b = 0 THEN 0
    ELSE CellsBefore(m, t, b - 1)
         + (IF m.cells[b].type = t THEN Len(m.cells[b].data) ELSE 0)

\* C7: a returned sub-mesh has one cell block, of the requested type, and one
\* field holding one tag array as long as the block; its cells are the cells of
\* that type of the source in their order, each with its own tag
C7_TagsInLockstep ==
    Called /\ call.ret.ok =>
      LET m == call.mesh
          t == call.cell_type
          out == call.ret.mesh
          name == CHOOSE n \in DOMAIN out.cell_data : TRUE
      IN  /\ Len(out.cells) = 1
          /\ out.cells[1].type = t
          /\ Cardinality(DOMAIN out.cell_data) = 1
          /\ Len(out.cell_data[name]) = 1
          /\ Len(out.cell_data[name][1]) = Len(out.cells[1].data)
          /\ Len(out.cells[1].data) = CellsBefore(m, t, Len(m.cells))
          /\ \A b \in 1..Len(m.cells) :
                m.cells[b].type = t =>
                  \A j \in 1..Len(m.cells[b].data) :
                     /\ out.cells[1].data[CellsBefore(m, t, b - 1) + j]
                          = m.cells[b].data[j]
                     /\ out.cell_data[name][1][CellsBefore(m, t, b - 1) + j]
                          = m.cell_data[PHYSICAL][b][j]

C7_Witness ==
    /\ Called
    /\ call.ret.ok
    /\ call.cell_type = "line"
    /\ Len(call.mesh.cells) = 3
    /\ call.mesh.cells[1].type = "line"
    /\ call.mesh.cells[3].type = "line"
    /\ call.ret.mesh.cell_data["facet_markers"][1] = <<2, 1, 1>>

\* the stated preconditions of the call hold
Preconditions ==
    /\ Called
    /\ call.cell_type \in {"line", "triangle", "tetra"}
    /\ HasTag(call.mesh, call.cell_type)

\* C8 as stated: a call whose preconditions hold returns a sub-mesh
C8_OnlyPreconditions ==
    Preconditions => call.ret.ok

\* the cell type is the body or the facet type of the mesh
HasRole(m, t) ==
    \/ HasCells(m, "triangle") /\ ~HasCells(m, "tetra") /\ t \in {"triangle", "line"}
    \/ HasCells(m, "triangle") /\ HasCells(m, "tetra") /\ t \in {"tetra", "triangle"}

\* C8 (amended): a call whose preconditions hold returns a sub-mesh if the cell
\* type is the body or the facet type of the mesh, and raises RuntimeError if it
\* is not (line in a mesh with tetra cells, tetra in a mesh without, any type in
\* a mesh without triangle cells)
C8_RaisesUnlessRole ==
    Preconditions =>
      /\ call.ret.ok <=> HasRole(call.mesh, call.cell_type)
      /\ ~call.ret.ok => call.ret.err = "RuntimeError"

C8_Witness ==
    /\ Preconditions
    /\ HasCells(call.mesh, "triangle")
    /\ HasCells(call.mesh, "tetra")
    /\ call.cell_type = "line"
    /\ call.ret = Raise("RuntimeError")

\* every point of the sub-mesh is the point of the source without its z
Pruned(src, out) ==
    /\ Len(out) = Len(src)
    /\ \A i \in 1..Len(src) : out[i] = <<src[i][1], src[i][2]>>

\* every point of the source has z = 0
Planar(src) == \A i \in 1..Len(src) : src[i][3] = 0

C10_FacetBeforeBody ==
    /\ xdmf_file(msh_file) \in DOMAIN disk =>
          /\ xdmf_facet_marker_file(msh_file) \in DOMAIN disk
          /\ disk[xdmf_facet_marker_file(msh_file)].kind = "xdmf"
          /\ Len(writes) >= 1
    /\ Len(writes) >= 1 => writes[1] = xdmf_facet_marker_file(msh_file)
    /\ Len(writes) = 2 => writes[2] = xdmf_file(msh_file)

C10_Witness ==
    /\ pc = "failed"
    /\ err.line = 118
    /\ xdmf_facet_marker_file(msh_file) \in DOMAIN disk
    /\ xdmf_file(msh_file) \notin DOMAIN disk

====
